---- MODULE Spec2Model ----
(***************************************************************************)
(* Model of the two Streamlit pages of the repository:                     *)
(*   LawOfLargeNumbers.py  - the cached coin-flip simulation               *)
(*   RoboAdvisor.py        - the portfolio return / growth projection      *)
(*                                                                         *)
(* Numbers.  The proportions are kept as fractions num/den.  The returns   *)
(* and money of RoboAdvisor.py are Python floats; they are modelled as     *)
(* fixed-point numbers with FScale units per 1, rounded down after every   *)
(* operation (a return of 0.045 is 450).  At this width the monthly return *)
(* of an annual return below about 0.0012 rounds to 0, as it does in the   *)
(* floats below about 1e-15; the returns drawn are 0 or well above that.   *)
(***************************************************************************)
EXTENDS Integers, Sequences, FiniteSets

(* ---------------- bounds ---------------- *)
MaxFlips == 2
MaxRuns == 2
MaxCalls == 3
StreamLen == 4

(* Two launches of the page (two server processes). *)
Procs == {1, 2}

(* The process-global generator of numpy: a seed fixes the whole stream of *)
(* bits the generator will hand out; rng is the number of bits consumed.   *)
Seeds == [0 .. StreamLen - 1 -> {0, 1}]

(* nan, the value numpy gives 0/0 *)
NaN == [num |-> 0, den |-> 0]
NoArgs == <<>>

VARIABLES
    seed,               \* seed[p]: the stream numpy's global generator of process p was seeded with
    rng,                \* rng[p]: bits consumed from the global generator of process p
    cache,              \* cache[p]: the st.cache_data store of run_simulation, args -> value
    args,               \* args[p]: <<n_flips, n_sims>> of the last invocation, NoArgs before
    results,            \* results[p]: the matrix drawn by the last execution of the body
    outcome,            \* outcome[p]: "none", "miss", "hit" or "ValueError"
    proportions,        \* proportions[p]: the value the last invocation returned
    calls               \* calls[p]: number of invocations so far

llnVars == <<seed, rng, cache, args, results, outcome, proportions, calls>>

VARIABLES
    projCall,           \* the last call of project_portfolio_growth: its arguments and result
    retCall,            \* the last call of calculate_portfolio_return: its arguments and result
    session_state,      \* st.session_state of the session, a function of the keys set
    clicked,            \* what st.button("Calculate My Plan") returned in the last rerun
    widgets,            \* the values of the sidebar widgets in the last rerun
    view,               \* what the main logic rendered: "none", "info", "plan" or an error
    plan                \* the plan rendered: return, years and projected values

roboVars == <<projCall, retCall, session_state, clicked, widgets, view, plan>>

vars == <<llnVars, roboVars>>

(* ---------------- LawOfLargeNumbers.py ---------------- *)

(* np.random.randint(0, 2, size=(n_sims, n_flips)): row-major draw *)
RandInt(s, pos, n_sims, n_flips) ==
    [i \in 1 .. n_sims |->
        [j \in 1 .. n_flips |-> s[(pos + (i - 1) * n_flips + (j - 1)) % StreamLen]]]

RECURSIVE SumSeq(_)
SumSeq(row) == IF row = <<>> THEN 0 ELSE row[1] + SumSeq(Tail(row))

(* np.sum(results, axis=1) *)
HeadsCounts(res) == [i \in 1 .. Len(res) |-> SumSeq(res[i])]

(* heads_counts / n_flips: numpy true division, 0/0 is nan *)
TrueDivide(h, n) == IF n = 0 THEN NaN ELSE [num |-> h, den |-> n]

(* a slip: dividing by the number of simulations *)
ProportionsOfHeadsBySims(res, n_flips) ==
    [i \in 1 .. Len(res) |-> TrueDivide(HeadsCounts(res)[i], Len(res))]

ProportionsOfHeads(res, n_flips) ==
    [i \in 1 .. Len(res) |-> TrueDivide(HeadsCounts(res)[i], n_flips)]

(* numpy refuses a negative dimension with ValueError *)
RaisesValueError(n_flips, n_sims) == n_flips < 0 \/ n_sims < 0

(* a slip: the function left undecorated, every invocation runs the body *)
CacheHitNever(c, a) == FALSE

(* st.cache_data: is the value of this argument tuple stored? *)
CacheHit(c, a) == a \in DOMAIN c

CacheStore(c, a, v) == [k \in DOMAIN c \cup {a} |-> IF k = a THEN v ELSE c[k]]

RECURSIVE SumOver(_, _)
SumOver(f, S) == IF S = {} THEN 0
                 ELSE LET x == CHOOSE y \in S : TRUE IN f[x] + SumOver(f, S \ {x})

(* Invocations made so far, over all processes. *)
TotalCalls == SumOver(calls, Procs)

(* One invocation of the decorated run_simulation in process p. *)
run_simulation(p, n_flips, n_sims) ==
    LET a == <<n_flips, n_sims>> IN
    /\ TotalCalls < MaxCalls
    /\ calls' = [calls EXCEPT ![p] = @ + 1]
    /\ args' = [args EXCEPT ![p] = a]
    /\ IF CacheHit(cache[p], a)
       THEN /\ proportions' = [proportions EXCEPT ![p] = cache[p][a]]
            /\ outcome' = [outcome EXCEPT ![p] = "hit"]
            /\ UNCHANGED <<rng, cache, results>>
       ELSE IF RaisesValueError(n_flips, n_sims)
       THEN /\ outcome' = [outcome EXCEPT ![p] = "ValueError"]
            /\ proportions' = [proportions EXCEPT ![p] = <<>>]
            /\ UNCHANGED <<rng, cache, results>>
       ELSE LET res == RandInt(seed[p], rng[p], n_sims, n_flips)
                v == ProportionsOfHeads(res, n_flips)
            IN  /\ results' = [results EXCEPT ![p] = res]
                /\ rng' = [rng EXCEPT ![p] = @ + n_sims * n_flips]
                /\ cache' = [cache EXCEPT ![p] = CacheStore(@, a, v)]
                /\ proportions' = [proportions EXCEPT ![p] = v]
                /\ outcome' = [outcome EXCEPT ![p] = "miss"]
    /\ UNCHANGED seed

(* ---------------- RoboAdvisor.py ---------------- *)

(* Fixed-point scale of the returns: 0.0001 is 1. *)
FScale == 10 * 1000

AVG_STOCK_RETURN == 800
AVG_BOND_RETURN == 300

ALLOCATION_STRATEGY ==
    [Conservative |-> [Stocks |-> 30, Bonds |-> 70],
     Moderate     |-> [Stocks |-> 60, Bonds |-> 40],
     Aggressive   |-> [Stocks |-> 90, Bonds |-> 10]]

RiskProfiles == DOMAIN ALLOCATION_STRATEGY

(* a * b and a / b of two fixed-point numbers (b may be negative) *)
FMul(a, b) == (a * b) \div FScale
FDiv(a, b) == IF b < 0 THEN ((0 - a) * FScale) \div (0 - b) ELSE (a * FScale) \div b

(* money * fixed-point factor, to the money unit *)
MMul(money, f) == (money * f) \div FScale

(* allocation[...] / 100 *)
Percent(w) == (w * FScale) \div 100

(* a slip: the stock weight used for both asset classes *)
calculate_portfolio_return_stock_only(risk_profile, stock_return, bond_return) ==
    LET allocation == ALLOCATION_STRATEGY[risk_profile]
        stock_percent == Percent(allocation.Stocks)
    IN  FMul(stock_percent, stock_return) + FMul(stock_percent, bond_return)

calculate_portfolio_return(risk_profile, stock_return, bond_return) ==
    LET allocation == ALLOCATION_STRATEGY[risk_profile]
        stock_percent == Percent(allocation.Stocks)
        bond_percent == Percent(allocation.Bonds)
    IN  FMul(stock_percent, stock_return) + FMul(bond_percent, bond_return)

(* b ** n for a natural n *)
RECURSIVE PowFix(_, _)
PowFix(b, n) == IF n = 0 THEN FScale ELSE FMul(PowFix(b, n - 1), b)

(* x ** (1/12) for 0 <= x: the largest k in lo..hi with k ** 12 <= x *)
RECURSIVE Root12In(_, _, _)
Root12In(x, lo, hi) ==
    IF lo >= hi THEN lo
    ELSE LET mid == (lo + hi + 1) \div 2
         IN  IF PowFix(mid, 12) <= x THEN Root12In(x, mid, hi)
                                     ELSE Root12In(x, lo, mid - 1)

(* roots up to 1.1, that is annual returns up to about 200 percent *)
Root12(x) == Root12In(x, 0, FScale + FScale \div 10)

(* monthly_return = (1 + annual_return)**(1/12) - 1 *)
MonthlyReturn(annual_return) == Root12(FScale + annual_return) - FScale

(* a slip: the balance multiplied by the return alone *)
CompoundReturnOnly(current_value, annual_return) == MMul(current_value, annual_return)

(* current_value * (1 + annual_return) *)
Compound(current_value, annual_return) == MMul(current_value, FScale + annual_return)

(* monthly_contribution * (((1 + monthly_return)**12 - 1) / monthly_return), *)
(* evaluated when monthly_return is not 0                                   *)
FvContributions(monthly_contribution, monthly_return) ==
    MMul(monthly_contribution,
         FDiv(PowFix(FScale + monthly_return, 12) - FScale, monthly_return))

(* np.arange(n) *)
Arange(n) == [i \in 1 .. n |-> i - 1]

ZeroDivision == [kind |-> "ZeroDivisionError"]

(* the loop of project_portfolio_growth from year on; the float division *)
(* by a zero monthly_return raises ZeroDivisionError                      *)
RECURSIVE GrowthLoop(_, _, _, _, _, _)
GrowthLoop(portfolio_values, current_value, year, investment_horizon, monthly_contribution, annual_return) ==
    IF year > investment_horizon
    THEN [kind |-> "returned", years |-> Arange(investment_horizon + 1),
          portfolio_values |-> portfolio_values]
    ELSE IF MonthlyReturn(annual_return) = 0
    THEN ZeroDivision
    ELSE LET v == Compound(current_value, annual_return)
                  + FvContributions(monthly_contribution, MonthlyReturn(annual_return))
         IN  GrowthLoop(Append(portfolio_values, v), v, year + 1,
                        investment_horizon, monthly_contribution, annual_return)

project_portfolio_growth(initial_savings, monthly_contribution, investment_horizon, annual_return) ==
    GrowthLoop(<<initial_savings>>, initial_savings, 1, investment_horizon,
               monthly_contribution, annual_return)

(* ---------------- actions ---------------- *)

(* A direct call of run_simulation with any integers. *)
Call ==
    /\ \E n_flips \in -1 .. MaxFlips, n_sims \in -1 .. MaxRuns :
            run_simulation(1, n_flips, n_sims)
    /\ UNCHANGED roboVars

(* A rerun of the page in one of the processes: the sliders only hand out *)
(* values from their minimum up.                                          *)
Rerun ==
    /\ \E p \in Procs, n_flips \in 1 .. MaxFlips, n_sims \in 1 .. MaxRuns :
            run_simulation(p, n_flips, n_sims)
    /\ UNCHANGED roboVars

MaxHorizon == 2

SavingsArgs == {0 - 1000, 0, 10000}
ContributionArgs == {0 - 50, 0, 100, 200}
HorizonArgs == -1 .. MaxHorizon
ReturnArgs == {0 - 500, 0, 450, 600, 750}
AssetReturnArgs == {0 - 200, 0, AVG_BOND_RETURN, 500, AVG_STOCK_RETURN, 1000}

(* A direct call of project_portfolio_growth. *)
CallProject ==
    /\ \E s \in SavingsArgs, m \in ContributionArgs, h \in HorizonArgs, r \in ReturnArgs :
            projCall' = [initial_savings |-> s, monthly_contribution |-> m,
                         investment_horizon |-> h, annual_return |-> r,
                         result |-> project_portfolio_growth(s, m, h, r)]
    /\ UNCHANGED <<llnVars, retCall, session_state, clicked, widgets, view, plan>>

(* A direct call of calculate_portfolio_return. *)
CallReturn ==
    /\ \E rp \in RiskProfiles, sr \in AssetReturnArgs, br \in AssetReturnArgs :
            retCall' = [risk_profile |-> rp, stock_return |-> sr, bond_return |-> br,
                        result |-> calculate_portfolio_return(rp, sr, br)]
    /\ UNCHANGED <<llnVars, projCall, session_state, clicked, widgets, view, plan>>

(* the sidebar: what the widgets can hand out *)
HorizonWidget == 1 .. MaxHorizon
SavingsWidget == {0, 1000, 10000}
ContributionWidget == {0, 200}

(* a slip: the reset the comment of lines 69-72 talks about *)
ButtonBlockReset(ss, button) ==
    [k \in DOMAIN ss \cup {"run_calculation"} |->
        IF k = "run_calculation" THEN button ELSE ss[k]]

(* lines 63-68: the button sets the flag, a rerun without a click only *)
(* initializes it                                                      *)
ButtonBlock(ss, button) ==
    IF button
    THEN [k \in DOMAIN ss \cup {"run_calculation"} |->
              IF k = "run_calculation" THEN TRUE ELSE ss[k]]
    ELSE IF "run_calculation" \notin DOMAIN ss
    THEN [k \in DOMAIN ss \cup {"run_calculation"} |->
              IF k = "run_calculation" THEN FALSE ELSE ss[k]]
    ELSE ss

(* lines 117-196: the main logic, reading the flag *)
MainLogic(ss, w) ==
    IF "run_calculation" \notin DOMAIN ss
    THEN [view |-> "AttributeError", plan |-> <<>>]
    ELSE IF ss["run_calculation"]
    THEN LET expected_portfolio_return ==
                 calculate_portfolio_return(w.risk_tolerance, AVG_STOCK_RETURN, AVG_BOND_RETURN)
             g == project_portfolio_growth(w.current_savings, w.monthly_contribution,
                                           w.investment_horizon, expected_portfolio_return)
         IN  IF g.kind = "returned"
             THEN [view |-> "plan",
                   plan |-> [expected_portfolio_return |-> expected_portfolio_return,
                             years |-> g.years,
                             projected_values |-> g.portfolio_values]]
             ELSE [view |-> g.kind, plan |-> <<>>]
    ELSE [view |-> "info", plan |-> <<>>]

(* One rerun of the RoboAdvisor page in the session. *)
RoboRerun ==
    /\ \E button \in BOOLEAN, h \in HorizonWidget, s \in SavingsWidget,
          m \in ContributionWidget, rt \in RiskProfiles :
          LET w == [investment_horizon |-> h, current_savings |-> s,
                    monthly_contribution |-> m, risk_tolerance |-> rt]
              ss == ButtonBlock(session_state, button)
          IN  /\ clicked' = button
              /\ widgets' = w
              /\ session_state' = ss
              /\ view' = MainLogic(ss, w).view
              /\ plan' = MainLogic(ss, w).plan
    /\ UNCHANGED <<llnVars, projCall, retCall>>

InitLLN ==
    /\ seed \in [Procs -> Seeds]
    /\ rng = [p \in Procs |-> 0]
    /\ cache = [p \in Procs |-> <<>>]
    /\ args = [p \in Procs |-> NoArgs]
    /\ results = [p \in Procs |-> <<>>]
    /\ outcome = [p \in Procs |-> "none"]
    /\ proportions = [p \in Procs |-> <<>>]
    /\ calls = [p \in Procs |-> 0]

InitRobo ==
    /\ projCall = <<>>
    /\ retCall = <<>>
    /\ session_state = <<>>
    /\ clicked = FALSE
    /\ widgets = <<>>
    /\ view = "none"
    /\ plan = <<>>

Init == InitLLN /\ InitRobo

(* every launch is seeded with the same seed *)
InitSeeded == Init /\ \A p \in Procs : seed[p] = seed[1]

(* the RoboAdvisor page never touches the generator: one seed stands for all *)
InitAdvisor == Init /\ \A p \in Procs : \A i \in 0 .. StreamLen - 1 : seed[p][i] = 0

NextSim == Call
NextPage == Rerun
NextProj == CallProject
NextRet == CallReturn
NextRobo == RoboRerun

SpecSim == InitSeeded /\ [][NextSim]_vars
SpecPage == InitSeeded /\ [][NextPage]_vars
SpecProj == InitAdvisor /\ [][NextProj]_vars
SpecRet == InitAdvisor /\ [][NextRet]_vars
SpecRobo == InitAdvisor /\ [][NextRobo]_vars

(* ---------------- properties ---------------- *)

Returned(p) == outcome[p] \in {"miss", "hit"}
Stepped(p) == calls'[p] # calls[p]
CountOnes(row) == Cardinality({j \in 1 .. Len(row) : row[j] = 1})

(* C1: for n_flips > 0 and n_sims > 0 run_simulation returns exactly n_sims *)
(* values, each the number of 1s drawn in its run over n_flips, in [0,1].   *)
C1_ProportionPerRun ==
    \A p \in Procs :
        (Returned(p) /\ args[p][1] > 0 /\ args[p][2] > 0) =>
            /\ Len(proportions[p]) = args[p][2]
            /\ \A i \in 1 .. Len(proportions[p]) :
                  /\ proportions[p][i].den = args[p][1]
                  /\ 0 <= proportions[p][i].num
                  /\ proportions[p][i].num <= proportions[p][i].den
            /\ outcome[p] = "miss" =>
                  /\ Len(results[p]) = args[p][2]
                  /\ \A i \in 1 .. Len(results[p]) :
                        /\ Len(results[p][i]) = args[p][1]
                        /\ \A j \in 1 .. Len(results[p][i]) : results[p][i][j] \in {0, 1}
                        /\ proportions[p][i].num = CountOnes(results[p][i])

C1_Witness ==
    /\ outcome[1] = "miss"
    /\ args[1] = <<2, 2>>
    /\ results[1] = <<(<<0, 1>>), (<<1, 1>>)>>
    /\ proportions[1] = <<[num |-> 1, den |-> 2], [num |-> 2, den |-> 2]>>

(* C4: an invocation with n_flips <= 0 or n_sims <= 0 ends in an *)
(* invalid-argument error and returns no sequence.               *)
C4_InvalidCountsRaise ==
    \A p \in Procs :
        (outcome[p] # "none" /\ (args[p][1] <= 0 \/ args[p][2] <= 0)) =>
            outcome[p] = "ValueError"

(* C8: two invocations with the same arguments and the same seed return *)
(* identical sequences, whatever was invoked before them.               *)
C8_SeedDeterminesResult ==
    \A p, q \in Procs :
        (Returned(p) /\ Returned(q) /\ args[p] = args[q] /\ seed[p] = seed[q]) =>
            proportions[p] = proportions[q]

(* a batch once produced is never altered *)
CacheKept(p) ==
    \A a \in DOMAIN cache[p] : a \in DOMAIN cache'[p] /\ cache'[p][a] = cache[p][a]

(* C9 as claimed: a rerun whose inputs differ from those of the previous *)
(* rerun samples afresh, and no batch produced is ever altered.          *)
C9_RecomputedOnEveryChange ==
    [][\A p \in Procs :
          Stepped(p) =>
              /\ (outcome[p] # "none" /\ args'[p] # args[p]) => rng'[p] > rng[p]
              /\ CacheKept(p)]_vars

(* C9 amended: a rerun samples afresh when its inputs were never used in  *)
(* the process before; for inputs used before, the changed-back ones too, *)
(* it returns the batch stored for them and draws nothing; no batch       *)
(* produced is ever altered.                                              *)
C9_RecomputedOnNewInputs ==
    [][\A p \in Procs :
          Stepped(p) =>
              /\ IF args'[p] \in DOMAIN cache[p]
                 THEN /\ rng'[p] = rng[p]
                      /\ proportions'[p] = cache[p][args'[p]]
                 ELSE /\ rng'[p] = rng[p] + args'[p][1] * args'[p][2]
                      /\ args'[p] \in DOMAIN cache'[p]
                      /\ cache'[p][args'[p]] = proportions'[p]
              /\ CacheKept(p)]_vars

(* reruns (1,1), (2,2), (1,1): the matrix last drawn is the one of (2,2) *)
C9_Witness ==
    \E p \in Procs :
        /\ calls[p] = 3
        /\ outcome[p] = "hit"
        /\ args[p] = <<1, 1>>
        /\ DOMAIN cache[p] = {<<1, 1>>, <<2, 2>>}
        /\ Len(results[p]) = 2
        /\ rng[p] = 5
        /\ proportions[p] = cache[p][<<1, 1>>]

ProjCalled == DOMAIN projCall # {}

(* C2: for investment_horizon >= 1, initial_savings >= 0 and             *)
(* monthly_contribution >= 0 the series has investment_horizon + 1       *)
(* entries, years 0, 1, ..., in order, and starts at initial_savings.    *)
C2_SeriesShape ==
    (/\ ProjCalled
     /\ projCall.investment_horizon >= 1
     /\ projCall.initial_savings >= 0
     /\ projCall.monthly_contribution >= 0) =>
        /\ projCall.result.kind = "returned"
        /\ Len(projCall.result.years) = projCall.investment_horizon + 1
        /\ Len(projCall.result.portfolio_values) = projCall.investment_horizon + 1
        /\ \A i \in 1 .. Len(projCall.result.years) : projCall.result.years[i] = i - 1
        /\ projCall.result.portfolio_values[1] = projCall.initial_savings

(* C3: with annual_return = 0 no numeric fault is raised and every year *)
(* adds exactly monthly_contribution * 12.                             *)
C3_ZeroReturnAddsContributions ==
    (ProjCalled /\ projCall.annual_return = 0) =>
        /\ projCall.result.kind = "returned"
        /\ \A y \in 2 .. Len(projCall.result.portfolio_values) :
              projCall.result.portfolio_values[y] =
                  projCall.result.portfolio_values[y - 1] + projCall.monthly_contribution * 12

(* C5: investment_horizon < 1 or a negative money input ends in an *)
(* invalid-argument error and returns no series.                   *)
C5_InvalidInputRaises ==
    (/\ ProjCalled
     /\ \/ projCall.investment_horizon < 1
        \/ projCall.initial_savings < 0
        \/ projCall.monthly_contribution < 0) =>
        projCall.result.kind = "ValueError"

RetCalled == DOMAIN retCall # {}

StockWeight(rp) == CASE rp = "Conservative" -> 30 [] rp = "Moderate" -> 60 [] rp = "Aggressive" -> 90
BondWeight(rp) == CASE rp = "Conservative" -> 70 [] rp = "Moderate" -> 40 [] rp = "Aggressive" -> 10

WeightedSum ==
    RetCalled =>
        retCall.result * 100 = StockWeight(retCall.risk_profile) * retCall.stock_return
                               + BondWeight(retCall.risk_profile) * retCall.bond_return

ConservativeExample ==
    /\ RetCalled
    /\ retCall.risk_profile = "Conservative"
    /\ retCall.stock_return = 800
    /\ retCall.bond_return = 300

(* C7 as claimed: the weighted sum with the weights 30/70, 60/40, 90/10, *)
(* and Conservative with 0.08 and 0.03 gives 0.051.                      *)
C7_WeightedSum051 ==
    /\ WeightedSum
    /\ ConservativeExample => retCall.result = 510

(* C7 amended: the weighted sum with the weights 30/70, 60/40, 90/10, *)
(* and Conservative with 0.08 and 0.03 gives 0.045.                   *)
C7_WeightedSum045 ==
    /\ WeightedSum
    /\ ConservativeExample => retCall.result = 450

C7_Witness == ConservativeExample /\ retCall.result = 450

FlagDefined == "run_calculation" \in DOMAIN session_state
FlagTrue == FlagDefined /\ session_state["run_calculation"]

====
